---- MODULE Spec2Model ----
(***************************************************************************)
(* Model of rust-certgen.                                                  *)
(*                                                                         *)
(*   Spec     the provisioning workflow of src/main.rs: read_key,          *)
(*            read_root_crt and the per-site loop of main, over a small    *)
(*            file system of PEM files.                                    *)
(*   SpecKey  the key manager of src/key.rs: Key::load, Key::save and      *)
(*            Key::load_or_generate on one key file.                       *)
(*   SpecUnit SpecKey followed by Certificate::save of src/cert.rs.        *)
(*   SpecCert the builders of src/cert.rs: every order of their            *)
(*            operations, ending in build().                               *)
(*                                                                         *)
(* Files hold abstract PEM values: an absent file, bytes that parse as     *)
(* nothing, a private key (identified by a number; two keys are the same   *)
(* key pair iff their numbers are equal) or a certificate.  A freshly      *)
(* generated key gets a number no earlier key has.                         *)
(***************************************************************************)
EXTENDS Integers, FiniteSets, Sequences, TLC

(* ---------------------------- bounds ----------------------------------- *)
MaxSites == 2
MaxPrompts == 4
MaxOps == 4

(* ---------------------------- file contents ---------------------------- *)
Absent == [kind |-> "absent"]
Garbage == [kind |-> "garbage"]
KeyPem(k) == [kind |-> "key", id |-> k, enc |-> FALSE]
EncKeyPem(k) == [kind |-> "key", id |-> k, enc |-> TRUE]
NoneVal == [kind |-> "none"]
Some(v) == [kind |-> "some", val |-> v]
Ok(v) == [kind |-> "ok", val |-> v]
Err(e) == [kind |-> "err", msg |-> e]

(* ---------------------------- configuration ---------------------------- *)
AllSiteNames == <<"www", "mail", "git", "vpn">>
\* keys of Config.site_certs
SiteNames == {AllSiteNames[i] : i \in 1..MaxSites}
\* values of Config.site_certs
SiteCert == {[name |-> NoneVal, max_age_days |-> NoneVal],
             [name |-> Some("Web"), max_age_days |-> Some(730)]}
\* Config.network
Network == [name |-> "Acme", email |-> "ca@acme.test", country |-> Some("PL"),
            province |-> NoneVal, default_max_age_days |-> 365,
            root_ca_key |-> <<"root_ca", "key">>, root_ca_crt |-> <<"root_ca", "crt">>]

\* the values certgen.toml gives network.default_max_age_days
DefaultMaxAgeDays == {365, 365 * 100}

\* format!("{}.key", site_name) and format!("{}.crt", site_name)
SiteKeyPath(site_name) == <<site_name, "key">>
SiteCrtPath(site_name) == <<site_name, "crt">>
Paths == {Network.root_ca_key, Network.root_ca_crt}
           \cup {SiteKeyPath(s) : s \in SiteNames} \cup {SiteCrtPath(s) : s \in SiteNames}

VARIABLES
  fs,        \* path -> content of the file
  fs0,       \* the files as the run found them
  site_certs,\* Config.site_certs
  pc,        \* position of main
  unit,      \* the unit being resolved: "root_ca" or a site name
  visited,   \* the sites the loop of main has completed
  ca_pkey,   \* main's ca_pkey
  ca_cert,   \* main's ca_cert
  asked,     \* the confirmation prompts printed so far
  written,   \* the paths created or written so far
  err,       \* the error main returned
  nextKey,   \* number of the next generated key
  kpath,     \* the path given to Key::load_or_generate
  kfile,     \* content of the file at kpath
  kfile0,    \* that file as the call found it
  kpc,       \* position inside Key::load_or_generate and Key::save
  kkey,      \* the generated key
  passphrase1, passphrase2, passphrase,  \* the locals of Key::save
  kresult,   \* the Result returned
  confirms,  \* number of confirm() prompts printed
  passprompts, \* number of ask_passphrase() prompts printed
  mismatches,  \* number of "Entered passphrases do not match."
  kwrites,     \* number of times the key file was created and written
  default_max_age_days, \* Config.network.default_max_age_days
  builder,   \* the CertificateBuilder / SiteCertificateBuilder in hand
  built,     \* the Certificate build() returned
  now,       \* the time, in ticks: every builder operation takes one
  ksaver,    \* the caller of Key::save: "load_or_generate" or "Certificate::save"
  kcrt       \* content of the certificate file next to kpath

wvars == <<fs, fs0, site_certs, pc, unit, visited, ca_pkey, ca_cert, asked, written,
           err, nextKey>>
kvars == <<kpath, kfile, kcrt, kfile0, kpc, kkey, passphrase1, passphrase2, passphrase, kresult,
           confirms, passprompts, mismatches, kwrites>>
bvars == <<builder, built, now>>
xvars == <<default_max_age_days, bvars, ksaver>>
vars == <<wvars, kvars, xvars>>

(* ---------------------------- names and certificates ------------------- *)
\* the subject of the root certificate
RootName(net) ==
  [cn |-> net.name, o |-> net.name, ou |-> net.name, email |-> net.email,
   c |-> net.country, st |-> net.province]

RootExtensions_noCA == {"extendedKeyUsage:serverAuth"}
RootExtensions == {"extendedKeyUsage:serverAuth", "basicConstraints:CA"}

\* Config.network as main read it
Net == [Network EXCEPT !.default_max_age_days = default_max_age_days]

\* days_from_now(365 * 100)
RootDays_fromConfig == Net.default_max_age_days
RootDays == 365 * 100

\* the self-signed certificate read_root_crt builds
RootX509(net, key) ==
  [kind |-> "crt", version |-> 2, pubkey |-> key, subject |-> RootName(net),
   issuer |-> RootName(net), exts |-> RootExtensions, days |-> RootDays,
   signedBy |-> key]

UnwrapOr(opt, dflt) == IF opt.kind = "some" THEN opt.val ELSE dflt

SiteSubjectName_displayCN(net, site_name, site_cfg) ==
  [cn |-> UnwrapOr(site_cfg.name, site_name), o |-> net.name,
   ou |-> UnwrapOr(site_cfg.name, site_name), email |-> net.email,
   c |-> net.country, st |-> net.province]
SiteSubjectName(net, site_name, site_cfg) ==
  [cn |-> site_name, o |-> net.name, ou |-> UnwrapOr(site_cfg.name, site_name),
   email |-> net.email, c |-> net.country, st |-> net.province]

SiteExtensions == {"extendedKeyUsage:serverAuth", "subjectAltName"}

\* let ca_subject_name = ca_cert.subject_name();
CaSubjectName_fromConfig(crt) == RootName(Network)
CaSubjectName(crt) == crt.subject

\* the certificate the loop of main builds and signs for one site
SiteX509(net, site_name, site_cfg, site_pkey, ca_subject_name, signer) ==
  [kind |-> "crt", version |-> 2, pubkey |-> site_pkey,
   subject |-> SiteSubjectName(net, site_name, site_cfg),
   issuer |-> ca_subject_name, exts |-> SiteExtensions,
   days |-> UnwrapOr(site_cfg.max_age_days, net.default_max_age_days),
   signedBy |-> signer]

(* ---------------------------- file operations -------------------------- *)
try_exists(f, path) == f[path].kind # "absent"
\* Rsa::private_key_from_pem(&std::fs::read(path)?)
private_key_from_pem(pem) == IF pem.kind = "key" THEN Ok(pem.id) ELSE Err("malformed")
\* X509::from_pem(&std::fs::read(path)?)
X509_from_pem(pem) == IF pem.kind = "crt" THEN Ok(pem) ELSE Err("malformed")
WriteFile(f, path, content) == [f EXCEPT ![path] = content]

\* what an error return of main leaves on disk: nothing is undone
BailFiles_rollback(f, w) == [p \in Paths |-> IF p \in w THEN Absent ELSE f[p]]
BailFiles(f, w) == f

KeyPrompt(path) == [q |-> "Key does not exist. Create new one?", path |-> path]
CrtPrompt(path) == [q |-> "Certificate does not exist. Create new one?", path |-> path]

\* an existing key or certificate file of earlier runs
OldKey(n) == IF n = "root_ca" THEN 1 ELSE 1 + CHOOSE i \in 1..MaxSites : AllSiteNames[i] = n
OldCaName == [cn |-> "Legacy", o |-> "Legacy", ou |-> "Legacy", email |-> "old@acme.test",
              c |-> NoneVal, st |-> NoneVal]
OldCaCrts == {RootX509(Network, OldKey("root_ca")),
              [RootX509(Network, OldKey("root_ca")) EXCEPT !.subject = OldCaName,
                                                           !.issuer = OldCaName]}

BInit ==
  /\ builder = NoneVal
  /\ built = NoneVal
  /\ now = 0

KInit ==
  /\ kpath = Network.root_ca_key
  /\ kfile = Absent /\ kfile0 = Absent /\ kpc = "idle" /\ kkey = NoneVal
  /\ passphrase1 = NoneVal /\ passphrase2 = NoneVal /\ passphrase = NoneVal
  /\ kresult = NoneVal /\ confirms = 0 /\ passprompts = 0 /\ mismatches = 0
  /\ kwrites = 0
  /\ kcrt = Absent
  /\ ksaver = "load_or_generate"

\* the files a run can find: each one absent, unreadable, or left by an earlier run
InitialFiles(caKey, caCrt, siteKey, siteCrt) ==
  [p \in Paths |->
     IF p = Network.root_ca_key THEN caKey
     ELSE IF p = Network.root_ca_crt THEN caCrt
     ELSE IF p[2] = "key"
       THEN (IF siteKey[p[1]] = "key" THEN KeyPem(OldKey(p[1]))
             ELSE IF siteKey[p[1]] = "garbage" THEN Garbage ELSE Absent)
       ELSE siteCrt[p[1]]]

Init ==
  /\ default_max_age_days \in DefaultMaxAgeDays
  /\ \E caKey \in {Absent, Garbage, KeyPem(OldKey("root_ca"))},
        caCrt \in {Absent, Garbage} \cup OldCaCrts,
        siteKey \in [SiteNames -> {"absent", "garbage", "key"}],
        siteCrt \in [SiteNames -> {Absent, Garbage}] :
       fs = InitialFiles(caKey, caCrt, siteKey, siteCrt)
  /\ fs0 = fs
  /\ site_certs \in [SiteNames -> SiteCert]
  /\ pc = "ca_key"
  /\ unit = "root_ca"
  /\ visited = {}
  /\ ca_pkey = NoneVal
  /\ ca_cert = NoneVal
  /\ asked = {}
  /\ written = {}
  /\ err = NoneVal
  /\ nextKey = MaxSites + 2
  /\ KInit
  /\ BInit

\* main returns Err(e)
Bail(e) ==
  /\ pc' = "aborted"
  /\ err' = Some(e)
  /\ fs' = BailFiles(fs, written)

(* ---------------------------- read_key --------------------------------- *)
\* read_key: the file exists, so it is read and parsed
ReadKeyExisting(path) == private_key_from_pem(fs[path])

\* let ca_pkey = read_key(&config.network.root_ca_key)?;  up to its prompt
CaKey ==
  /\ pc = "ca_key"
  /\ IF ~try_exists(fs, Network.root_ca_key)
       THEN /\ asked' = asked \cup {KeyPrompt(Network.root_ca_key)}
            /\ pc' = "ca_key_ask"
            /\ UNCHANGED <<fs, ca_pkey, err>>
       ELSE /\ UNCHANGED asked
            /\ LET r == ReadKeyExisting(Network.root_ca_key) IN
                 IF r.kind = "ok"
                   THEN /\ ca_pkey' = Some(r.val)
                        /\ pc' = "ca_crt"
                        /\ UNCHANGED <<fs, err>>
                   ELSE /\ Bail(r.msg)
                        /\ UNCHANGED ca_pkey
  /\ UNCHANGED <<fs0, site_certs, unit, visited, ca_cert, written, nextKey, kvars, xvars>>

\* the answer to read_key's prompt for the CA key, and the rest of read_key
CaKeyAnswer(yes) ==
  /\ pc = "ca_key_ask"
  /\ IF ~yes
       THEN /\ Bail("Aborted by user")
            /\ UNCHANGED <<ca_pkey, written, nextKey>>
       ELSE /\ fs' = WriteFile(fs, Network.root_ca_key, KeyPem(nextKey))
            /\ written' = written \cup {Network.root_ca_key}
            /\ nextKey' = nextKey + 1
            /\ ca_pkey' = Some(private_key_from_pem(fs'[Network.root_ca_key]).val)
            /\ pc' = "ca_crt"
            /\ UNCHANGED err
  /\ UNCHANGED <<fs0, site_certs, unit, visited, ca_cert, asked, kvars, xvars>>

(* ---------------------------- read_root_crt ---------------------------- *)
\* let ca_cert = read_root_crt(&config.network)?;  up to its prompt
CaCrt ==
  /\ pc = "ca_crt"
  /\ IF ~try_exists(fs, Network.root_ca_crt)
       THEN /\ asked' = asked \cup {CrtPrompt(Network.root_ca_crt)}
            /\ pc' = "ca_crt_ask"
            /\ UNCHANGED <<fs, ca_cert, err>>
       ELSE /\ UNCHANGED asked
            /\ LET r == X509_from_pem(fs[Network.root_ca_crt]) IN
                 IF r.kind = "ok"
                   THEN /\ ca_cert' = Some(r.val)
                        /\ pc' = "site"
                        /\ UNCHANGED <<fs, err>>
                   ELSE /\ Bail(r.msg)
                        /\ UNCHANGED ca_cert
  /\ UNCHANGED <<fs0, site_certs, unit, visited, ca_pkey, written, nextKey, kvars, xvars>>

\* the answer to read_root_crt's prompt, and the rest of read_root_crt; its
\* call of read_key finds the key file that main's read_key left readable
CaCrtAnswer(yes) ==
  /\ pc = "ca_crt_ask"
  /\ IF ~yes
       THEN /\ Bail("Aborted by user")
            /\ UNCHANGED <<ca_cert, written>>
       ELSE LET key == ReadKeyExisting(Network.root_ca_key).val IN
            /\ fs' = WriteFile(fs, Network.root_ca_crt, RootX509(Net, key))
            /\ written' = written \cup {Network.root_ca_crt}
            /\ ca_cert' = Some(X509_from_pem(fs'[Network.root_ca_crt]).val)
            /\ pc' = "site"
            /\ UNCHANGED err
  /\ UNCHANGED <<fs0, site_certs, unit, visited, ca_pkey, asked, nextKey, kvars, xvars>>

(* ---------------------------- the loop of main ------------------------- *)
\* the body of the loop after read_key returned site_pkey
IssueSite(f, s, site_pkey) ==
  WriteFile(f, SiteCrtPath(s),
            SiteX509(Net, s, site_certs[s], site_pkey,
                     CaSubjectName(ca_cert.val), ca_pkey.val))

\* for (site_name, site_cfg) in &config.site_certs: the next site, in the
\* order the HashMap yields, up to read_key's prompt
Site(s) ==
  /\ pc = "site"
  /\ s \in SiteNames \ visited
  /\ unit' = s
  /\ IF ~try_exists(fs, SiteKeyPath(s))
       THEN /\ asked' = asked \cup {KeyPrompt(SiteKeyPath(s))}
            /\ pc' = "site_key_ask"
            /\ UNCHANGED <<fs, visited, written, err>>
       ELSE /\ UNCHANGED asked
            /\ LET r == ReadKeyExisting(SiteKeyPath(s)) IN
                 IF r.kind = "ok"
                   THEN /\ fs' = IssueSite(fs, s, r.val)
                        /\ written' = written \cup {SiteCrtPath(s)}
                        /\ visited' = visited \cup {s}
                        /\ pc' = "site"
                        /\ UNCHANGED err
                   ELSE /\ Bail(r.msg)
                        /\ UNCHANGED <<visited, written>>
  /\ UNCHANGED <<fs0, site_certs, ca_pkey, ca_cert, nextKey, kvars, xvars>>

\* the answer to read_key's prompt for a site key, and the rest of the loop body
SiteKeyAnswer(yes) ==
  /\ pc = "site_key_ask"
  /\ IF ~yes
       THEN /\ Bail("Aborted by user")
            /\ UNCHANGED <<visited, written, nextKey>>
       ELSE LET withKey == WriteFile(fs, SiteKeyPath(unit), KeyPem(nextKey))
                site_pkey == private_key_from_pem(withKey[SiteKeyPath(unit)]).val IN
            /\ fs' = IssueSite(withKey, unit, site_pkey)
            /\ written' = written \cup {SiteKeyPath(unit), SiteCrtPath(unit)}
            /\ nextKey' = nextKey + 1
            /\ visited' = visited \cup {unit}
            /\ pc' = "site"
            /\ UNCHANGED err
  /\ UNCHANGED <<fs0, site_certs, unit, ca_pkey, ca_cert, asked, kvars, xvars>>

Finish_early ==
  /\ pc = "site"
  /\ pc' = "done"
  /\ UNCHANGED <<fs, fs0, site_certs, unit, visited, ca_pkey, ca_cert, asked, written,
                 err, nextKey, kvars, xvars>>
\* Ok(())
Finish ==
  /\ pc = "site"
  /\ visited = SiteNames
  /\ pc' = "done"
  /\ UNCHANGED <<fs, fs0, site_certs, unit, visited, ca_pkey, ca_cert, asked, written,
                 err, nextKey, kvars, xvars>>

Next ==
  \/ CaKey
  \/ \E yes \in BOOLEAN : CaKeyAnswer(yes)
  \/ CaCrt
  \/ \E yes \in BOOLEAN : CaCrtAnswer(yes)
  \/ \E s \in SiteNames : Site(s)
  \/ \E yes \in BOOLEAN : SiteKeyAnswer(yes)
  \/ Finish

Spec == Init /\ [][Next]_vars

(* ======================= properties of the workflow ==================== *)
UserCanceled == Some("Aborted by user")
CaPaths == {Network.root_ca_key, Network.root_ca_crt}
KeyPathOf(u) == IF u = "root_ca" THEN Network.root_ca_key ELSE SiteKeyPath(u)
CrtPathOf(u) == IF u = "root_ca" THEN Network.root_ca_crt ELSE SiteCrtPath(u)
WrittenSites == {s \in SiteNames : SiteCrtPath(s) \in written /\ fs[SiteCrtPath(s)].kind = "crt"}

\* C1: every site certificate the run wrote is signed with the private key
\* of the public key in the CA certificate whose subject is its issuer.
ChainOfTrust ==
  \A s \in WrittenSites :
    /\ ca_cert.kind = "some"
    /\ fs[SiteCrtPath(s)].issuer = ca_cert.val.subject
    /\ fs[SiteCrtPath(s)].signedBy = ca_cert.val.pubkey

\* C2: no CA material at the start and the CA-certificate prompt declined:
\* the run aborts and has created or written no file.
DeclinedCaCrtWritesNothing ==
  (/\ fs0[Network.root_ca_key] = Absent
   /\ fs0[Network.root_ca_crt] = Absent
   /\ CrtPrompt(Network.root_ca_crt) \in asked
   /\ pc = "aborted" /\ err = UserCanceled)
  => (written = {} /\ fs = fs0)

\* C4: a decline at a prompt aborts the whole run only while the CA is
\* being resolved; a decline while a site is resolved never ends the run.
SiteDeclineNotFatal ==
  (pc = "aborted" /\ err = UserCanceled) => unit = "root_ca"

\* C5: a unit that failed or was cancelled has not left behind a newly
\* written key file without its certificate file.
UnitWritesLast ==
  pc = "aborted" =>
    ~(KeyPathOf(unit) \in written /\ fs[CrtPathOf(unit)] = Absent)

\* C6: the run uses one CA certificate, the one of the CA certificate file;
\* every site certificate it wrote has that certificate's subject as issuer
\* and the site's logical name as the Common Name of its subject.
OneCaIssuesAll ==
  \A s \in WrittenSites :
    /\ ca_cert.kind = "some"
    /\ X509_from_pem(fs[Network.root_ca_crt]) = Ok(ca_cert.val)
    /\ fs[SiteCrtPath(s)].issuer = ca_cert.val.subject
    /\ fs[SiteCrtPath(s)].subject.cn = s
OneCaIssuesAllWitness ==
  /\ pc = "done"
  /\ \E s \in WrittenSites : site_certs[s].name = Some("Web")
  /\ \E s \in WrittenSites : site_certs[s].name = NoneVal
  /\ Network.root_ca_crt \in written

\* C7: with a valid CA key file and CA certificate file at the start, the
\* run prints no CA prompt, writes neither CA file, and every site
\* certificate it writes has the existing CA certificate's subject as issuer.
ExistingCaReused ==
  (fs0[Network.root_ca_key].kind = "key" /\ fs0[Network.root_ca_crt].kind = "crt")
  => /\ KeyPrompt(Network.root_ca_key) \notin asked
     /\ CrtPrompt(Network.root_ca_crt) \notin asked
     /\ written \cap CaPaths = {}
     /\ \A p \in CaPaths : fs[p] = fs0[p]
     /\ \A s \in WrittenSites :
          fs[SiteCrtPath(s)].issuer = fs0[Network.root_ca_crt].subject
ExistingCaReusedWitness ==
  /\ fs0[Network.root_ca_key].kind = "key"
  /\ fs0[Network.root_ca_crt].kind = "crt"
  /\ fs0[Network.root_ca_crt].subject = OldCaName
  /\ pc = "done"
  /\ WrittenSites = SiteNames

\* C9: a failure or cancellation while a site is resolved changes no file of
\* the CA or of a site completed earlier in the run.
DonePaths == CaPaths \cup {SiteKeyPath(s) : s \in visited} \cup {SiteCrtPath(s) : s \in visited}
SiteFailureKeepsFiles ==
  [][(pc \in {"site", "site_key_ask"} /\ pc' \in {"site_key_ask", "aborted"})
       => \A p \in DonePaths : fs'[p] = fs[p]]_vars
SiteFailureKeepsFilesWitness ==
  /\ pc = "aborted"
  /\ unit \in SiteNames
  /\ visited # {}
  /\ CaPaths \subseteq written
  /\ \E s \in visited : SiteKeyPath(s) \in written

\* C10: a CA certificate the run created is marked as a CA by its Basic
\* Constraints extension, and no site certificate the run wrote is.
BasicConstraintsOnlyOnCa ==
  /\ Network.root_ca_crt \in written
       => "basicConstraints:CA" \in fs[Network.root_ca_crt].exts
  /\ \A s \in WrittenSites : "basicConstraints:CA" \notin fs[SiteCrtPath(s)].exts
BasicConstraintsOnlyOnCaWitness ==
  /\ Network.root_ca_crt \in written
  /\ WrittenSites # {}

SitePaths == {SiteKeyPath(s) : s \in SiteNames} \cup {SiteCrtPath(s) : s \in SiteNames}
CaBeforeSites ==
  (\/ written \cap SitePaths # {}
   \/ \E s \in SiteNames : KeyPrompt(SiteKeyPath(s)) \in asked
   \/ pc \in {"site_key_ask", "done"})
  => (ca_pkey.kind = "some" /\ ca_cert.kind = "some")
EndsDoneOrAborted ==
  /\ ~ENABLED Next => pc \in {"done", "aborted"}
  /\ pc = "done" => (visited = SiteNames /\ err = NoneVal)
  /\ pc = "aborted" => err # NoneVal
WorkflowOrdering ==
  /\ [](CaBeforeSites /\ EndsDoneOrAborted)
  /\ [][pc = "aborted" => (pc' = "aborted" /\ fs' = fs /\ written' = written)]_vars
WorkflowOrderingWitness ==
  /\ pc = "aborted"
  /\ unit \in SiteNames
  /\ KeyPrompt(SiteKeyPath(unit)) \in asked
  /\ \E s \in visited : KeyPrompt(SiteKeyPath(s)) \in asked
  /\ Network.root_ca_key \in written

(* ======================= the key manager (key.rs) ====================== *)
\* what the user can type at a passphrase prompt
Passphrases == {"", "a", "b"}
\* console::ask_passphrase(prompt) -> Result<String>
AskPassphraseResults == {Ok(p) : p \in Passphrases} \cup {Err("ask_passphrase failed")}

\* Key::load
KeyLoad(pem) ==
  IF pem.kind = "absent" THEN Err("Error loading key file")
  ELSE private_key_from_pem(pem)

\* if passphrase1 == passphrase2
PassphrasesMatch_always(p1, p2) == TRUE
PassphrasesMatch(p1, p2) == p1 = p2

\* the PEM Key::save writes for the passphrase the loop left
SavedPem(key, pass) == IF pass.kind = "some" THEN EncKeyPem(key) ELSE KeyPem(key)

InitKey ==
  /\ fs = [p \in Paths |-> Absent]
  /\ fs0 = fs
  /\ site_certs = [s \in SiteNames |-> [name |-> NoneVal, max_age_days |-> NoneVal]]
  /\ default_max_age_days = Network.default_max_age_days
  /\ pc = "idle"
  /\ unit = "root_ca"
  /\ visited = {}
  /\ ca_pkey = NoneVal
  /\ ca_cert = NoneVal
  /\ asked = {}
  /\ written = {}
  /\ err = NoneVal
  /\ nextKey = MaxSites + 2
  /\ kpath \in {p \in Paths : p[2] = "key"}
  /\ kfile \in {Absent, Garbage, KeyPem(OldKey(kpath[1]))}
  /\ kfile0 = kfile
  /\ kpc = "start"
  /\ kkey = NoneVal
  /\ passphrase1 = NoneVal
  /\ passphrase2 = NoneVal
  /\ passphrase = NoneVal
  /\ kresult = NoneVal
  /\ confirms = 0
  /\ passprompts = 0
  /\ mismatches = 0
  /\ kwrites = 0
  /\ kcrt = Absent
  /\ ksaver = "load_or_generate"
  /\ BInit

\* Key::load_or_generate up to its confirm()
LoadOrGenerate ==
  /\ kpc = "start"
  /\ LET r == KeyLoad(kfile) IN
       IF r.kind = "ok"
         THEN /\ kresult' = Ok(r.val)
              /\ kpc' = "returned"
              /\ UNCHANGED confirms
         ELSE /\ confirms' = confirms + 1
              /\ kpc' = "confirm"
              /\ UNCHANGED kresult
  /\ UNCHANGED <<kpath, kfile, kcrt, kfile0, kkey, passphrase1, passphrase2, passphrase, passprompts,
                 mismatches, kwrites, wvars, xvars>>

\* the answer to "Generate key {path}?", then Key::generate and the entry of Key::save
GenerateAnswer(yes) ==
  /\ kpc = "confirm"
  /\ IF ~yes
       THEN /\ kresult' = Err("Canceled by user")
            /\ kpc' = "returned"
            /\ UNCHANGED <<kkey, nextKey, passphrase>>
       ELSE /\ kkey' = Some(nextKey)
            /\ nextKey' = nextKey + 1
            /\ passphrase' = NoneVal
            /\ kpc' = "enter"
            /\ UNCHANGED kresult
  /\ UNCHANGED <<kpath, kfile, kcrt, kfile0, passphrase1, passphrase2, confirms, passprompts,
                 mismatches, kwrites>>
  /\ UNCHANGED <<fs, fs0, site_certs, pc, unit, visited, ca_pkey, ca_cert, asked, written,
                 err, xvars>>

\* self.0.to_pem() of the Certificate paired with the key
CrtPem(key) == [kind |-> "crt", pubkey |-> key]

\* Key::save after its loop: File::create(path) and write_all; when the caller
\* is Certificate::save, its std::fs::write of the certificate follows
WriteKeyFile(pass) ==
  /\ kfile' = SavedPem(kkey.val, pass)
  /\ kwrites' = kwrites + 1
  /\ kresult' = Ok(kkey.val)
  /\ IF ksaver = "Certificate::save"
       THEN /\ kcrt' = CrtPem(kkey.val)
            /\ kpc' = "saved"
       ELSE /\ kpc' = "returned"
            /\ UNCHANGED kcrt

\* Key::save: ask_passphrase("Enter passphrase: ")
EnterPassphrase(r) ==
  /\ kpc = "enter"
  /\ passprompts < MaxPrompts
  /\ passprompts' = passprompts + 1
  /\ passphrase2' = NoneVal
  /\ IF r.kind = "err"
       THEN /\ kresult' = r
            /\ kpc' = "returned"
            /\ UNCHANGED <<kfile, kcrt, kwrites, passphrase1>>
       ELSE /\ passphrase1' = Some(r.val)
            /\ IF r.val = ""
                 THEN WriteKeyFile(passphrase)
                 ELSE /\ kpc' = "confirm_pass"
                      /\ UNCHANGED <<kfile, kcrt, kwrites, kresult>>
  /\ UNCHANGED <<kpath, kfile0, kkey, passphrase, confirms, mismatches, wvars, xvars>>

\* Key::save: ask_passphrase("Confirm passphrase: ")
ConfirmPassphrase(r) ==
  /\ kpc = "confirm_pass"
  /\ passprompts' = passprompts + 1
  /\ IF r.kind = "err"
       THEN /\ kresult' = r
            /\ kpc' = "returned"
            /\ UNCHANGED <<kfile, kcrt, kwrites, passphrase2, passphrase, mismatches>>
       ELSE /\ passphrase2' = Some(r.val)
            /\ IF PassphrasesMatch(passphrase1.val, r.val)
                 THEN /\ passphrase' = passphrase1
                      /\ WriteKeyFile(passphrase1)
                      /\ UNCHANGED mismatches
                 ELSE /\ mismatches' = mismatches + 1
                      /\ kpc' = "enter"
                      /\ UNCHANGED <<kfile, kcrt, kwrites, kresult, passphrase>>
  /\ UNCHANGED <<kpath, kfile0, kkey, passphrase1, confirms, wvars, xvars>>

NextKey ==
  \/ LoadOrGenerate
  \/ \E yes \in BOOLEAN : GenerateAnswer(yes)
  \/ \E r \in AskPassphraseResults : EnterPassphrase(r)
  \/ \E r \in AskPassphraseResults : ConfirmPassphrase(r)

SpecKey == InitKey /\ [][NextKey]_vars

(* ======================= properties of the key manager ================= *)
\* C3: Key::load_or_generate on a file that exists but does not parse
\* returns the load error at once: no confirmation prompt, no generated
\* key, the file unchanged; only an absent file leads to the prompt.
MalformedKeyIsFatal ==
  /\ kfile0 = Garbage =>
       /\ confirms = 0
       /\ kkey = NoneVal
       /\ kfile = kfile0
       /\ kpc = "returned" => kresult.kind = "err"
  /\ confirms > 0 => kfile0 = Absent

\* C8: during the passphrase loop of Key::save, whatever was answered and
\* however often the confirmation differed, nothing is written and nothing
\* has failed; once the file is written the loop has ended, and the file is
\* encrypted iff the last entered passphrase was non-empty and its
\* confirmation equal to it, cleartext iff the last entered passphrase was
\* empty, and then no confirmation was asked for.
SavePassphraseProtocol ==
  /\ kpc \in {"enter", "confirm_pass"} =>
       /\ kwrites = 0
       /\ kfile = kfile0
       /\ kresult = NoneVal
  /\ kwrites > 0 =>
       /\ kpc = "returned"
       /\ kresult.kind = "ok"
       /\ kfile.kind = "key"
       /\ kfile.enc <=> (passphrase1 # Some("") /\ passphrase2 = passphrase1)
       /\ ~kfile.enc <=> (passphrase1 = Some("") /\ passphrase2 = NoneVal)
  /\ (kresult.kind = "err" /\ kkey # NoneVal) => kresult \in AskPassphraseResults
SavePassphraseProtocolWitness ==
  /\ kwrites > 0
  /\ mismatches > 0
  /\ kfile.enc

(* ======================= one unit: key, then Certificate::save ========= *)
\* Certificate::save(name) on the Certificate made with the key that
\* Key::load_or_generate returned: the entry of self.1.save(...)
CertificateSave ==
  /\ kpc = "returned"
  /\ kresult.kind = "ok"
  /\ ksaver = "load_or_generate"
  /\ ksaver' = "Certificate::save"
  /\ kkey' = Some(kresult.val)
  /\ passphrase' = NoneVal
  /\ kpc' = "enter"
  /\ UNCHANGED <<kpath, kfile, kcrt, kfile0, passphrase1, passphrase2, kresult, confirms,
                 passprompts, mismatches, kwrites, default_max_age_days, bvars, wvars>>

NextUnit ==
  \/ NextKey
  \/ CertificateSave

SpecUnit == InitKey /\ [][NextUnit]_vars

\* C13: once the unit's Certificate::save has returned, a key file that
\* existed and loaded has not been rewritten and no passphrase was asked
\* for; a newly generated key has been written exactly once, by the one
\* passphrase dialogue that precedes each write.
IdempotentKeyReuse ==
  kpc = "saved" =>
    IF KeyLoad(kfile0).kind = "ok"
      THEN kwrites = 0 /\ passprompts = 0 /\ kfile = kfile0
      ELSE kwrites = 1

(* ======================= the certificate builders (cert.rs) ============ *)
\* the validity periods and alternative names a caller passes
BuilderDays == {1, 365}
AltNames == {<<>>, <<"www.acme.test", "acme.test">>}
\* the key of the certificate under construction and the key of the signing Certificate
BuilderKeys == {2}
SignerKeys == {1}

\* X509Builder::new, set_version(2), set_pubkey(&key)
NewX509(key) ==
  [version |-> 2, pubkey |-> key, subject |-> NoneVal, not_before |-> NoneVal,
   not_after |-> NoneVal, exts |-> <<>>]

\* X509Builder::append_extension
AppendExtension(b, ext) == [b EXCEPT !.x509.exts = Append(@, ext)]

\* X509Builder::sign(&key, MessageDigest::sha256()): the signature is
\* computed over the content the builder holds at the call
X509Sign(b, key) == [b EXCEPT !.signature = Some([by |-> key, over |-> b.x509])]

\* X509Builder::build: the content and the signature are returned as they are
X509Build(b) == [x509 |-> b.x509, signature |-> b.signature]

\* Certificate(self.0.build(), self.1)
CertificateOf(x, key) == [x509 |-> x.x509, signature |-> x.signature, key |-> key]

\* every operation of the builders takes time
Tick ==
  /\ now < MaxOps
  /\ now' = now + 1

InitCert ==
  /\ fs = [p \in Paths |-> Absent]
  /\ fs0 = fs
  /\ site_certs = [s \in SiteNames |-> [name |-> NoneVal, max_age_days |-> NoneVal]]
  /\ default_max_age_days = Network.default_max_age_days
  /\ pc = "idle"
  /\ unit = "root_ca"
  /\ visited = {}
  /\ ca_pkey = NoneVal
  /\ ca_cert = NoneVal
  /\ asked = {}
  /\ written = {}
  /\ err = NoneVal
  /\ nextKey = MaxSites + 2
  /\ KInit
  /\ BInit

\* CertificateBuilder::new(key)
CertificateBuilderNew(key) ==
  /\ builder = NoneVal
  /\ built = NoneVal
  /\ Tick
  /\ builder' = [type |-> "CertificateBuilder", x509 |-> NewX509(key), key |-> key,
                 signature |-> NoneVal]
  /\ UNCHANGED <<built, default_max_age_days, ksaver, wvars, kvars>>

\* CertificateBuilder::set_validity_period(days), on either builder
SetValidityPeriod(days) ==
  /\ builder # NoneVal
  /\ Tick
  /\ builder' = [builder EXCEPT !.x509.not_before = Some(now),
                                !.x509.not_after = Some(now + days)]
  /\ UNCHANGED <<built, default_max_age_days, ksaver, wvars, kvars>>

\* CertificateBuilder::set_certificate_authority(), on either builder
SetCertificateAuthority ==
  /\ builder # NoneVal
  /\ Tick
  /\ builder' = AppendExtension(builder, "basicConstraints:CA")
  /\ UNCHANGED <<built, default_max_age_days, ksaver, wvars, kvars>>

\* CertificateBuilder::set_server_auth(self) -> SiteCertificateBuilder
SetServerAuth ==
  /\ builder # NoneVal
  /\ builder.type = "CertificateBuilder"
  /\ Tick
  /\ builder' = [AppendExtension(builder, "extendedKeyUsage:serverAuth")
                   EXCEPT !.type = "SiteCertificateBuilder"]
  /\ UNCHANGED <<built, default_max_age_days, ksaver, wvars, kvars>>

\* SiteCertificateBuilder::set_subject_alt_names(alt_names)
SetSubjectAltNames(alt_names) ==
  /\ builder # NoneVal
  /\ builder.type = "SiteCertificateBuilder"
  /\ Tick
  /\ builder' = AppendExtension(builder, <<"subjectAltName", alt_names>>)
  /\ UNCHANGED <<built, default_max_age_days, ksaver, wvars, kvars>>

\* X509Builder::set_subject_name, reached through DerefMut
SetSubjectName(name) ==
  /\ builder # NoneVal
  /\ Tick
  /\ builder' = [builder EXCEPT !.x509.subject = Some(name)]
  /\ UNCHANGED <<built, default_max_age_days, ksaver, wvars, kvars>>

\* CertificateBuilder::sign_self()
SignSelf ==
  /\ builder # NoneVal
  /\ Tick
  /\ builder' = X509Sign(builder, builder.key)
  /\ UNCHANGED <<built, default_max_age_days, ksaver, wvars, kvars>>

\* Certificate::sign(&self, builder), self holding the key cakey
CertificateSign(cakey) ==
  /\ builder # NoneVal
  /\ Tick
  /\ builder' = X509Sign(builder, cakey)
  /\ UNCHANGED <<built, default_max_age_days, ksaver, wvars, kvars>>

\* CertificateBuilder::build(self) and SiteCertificateBuilder::build(self)
Build ==
  /\ builder # NoneVal
  /\ built' = Some(CertificateOf(X509Build(builder), builder.key))
  /\ builder' = NoneVal
  /\ UNCHANGED <<now, default_max_age_days, ksaver, wvars, kvars>>

NextCert ==
  \/ \E key \in BuilderKeys : CertificateBuilderNew(key)
  \/ \E days \in BuilderDays : SetValidityPeriod(days)
  \/ SetCertificateAuthority
  \/ SetServerAuth
  \/ \E alt_names \in AltNames : SetSubjectAltNames(alt_names)
  \/ \E name \in {"www", "Acme"} : SetSubjectName(name)
  \/ SignSelf
  \/ \E cakey \in SignerKeys : CertificateSign(cakey)
  \/ Build

SpecCert == InitCert /\ [][NextCert]_vars

\* C12: the Certificate build() returns has been signed, and nothing of
\* its content was changed after the last signing: the signature is over
\* the content returned.
SignatureCoversFinalContent ==
  built # NoneVal =>
    /\ built.val.signature # NoneVal
    /\ built.val.signature.val.over = built.val.x509

====
